---- MODULE Spec2Model ----
(***************************************************************************)
(* Model of the Mitsubishi G50A client (homeassistant/components/          *)
(* mitsubishi_g50a): the XML codec, the zone records, zone enumeration and *)
(* the gateway's command and refresh coroutines, together with the device  *)
(* they talk to.                                                           *)
(*                                                                         *)
(* Python values: attribute texts are strings, None is its own value,      *)
(* floats are counted in tenths (21.5 is 215), time is counted in          *)
(* milliseconds since the epoch (the code uses nanoseconds).  An attribute *)
(* that an object may lack (set_temp, inlet_temp) is <<>> when missing and *)
(* <<v>> when set.                                                         *)
(***************************************************************************)
EXTENDS Integers, Sequences, FiniteSets, TLC

VARIABLES
    zones,          \* MitsubishiG50a.zones: zone id -> G50Zone
    last_updated,   \* MitsubishiG50a.last_updated
    now,            \* the wall clock read by time.time_ns()
    dev,            \* the state held by the G50A device, per group
    calls,          \* the coroutines of the gateway that can be in flight
    made,           \* how many calls have been made on the gateway
    enum,           \* the running enumerate_zones coroutine
    hass            \* hass.data[DOMAIN] and the config entry's setup / unload

vars == <<zones, last_updated, now, dev, calls, made, enum, hass>>

(***************************************************************************)
(* Bounds of the model.                                                    *)
(***************************************************************************)
NCalls == 2          \* coroutines of the gateway in flight at once
MaxCalls == 2        \* calls made on the gateway in one behaviour
MaxTicks == 1        \* clock ticks in one behaviour
TickMs == 60         \* length of one clock tick, in ms
StartTime == 1000    \* the clock when the behaviour starts, in ms
MaxInitZones == 1    \* zones the gateway was constructed with
MaxOdd == 1          \* enumeration replies that are not a plain echo

(***************************************************************************)
(* Program constants.                                                      *)
(***************************************************************************)
MAX_ZONES == 10
STALE_MS == 100      \* 100_000_000 ns
BULK_ZONES == 3

GET_COMMAND == "getRequest"
SET_COMMAND == "setRequest"

None == "<None>"     \* Python's None, distinct from every text
Unset == <<>>
Some(v) == <<v>>

\* str(x) for x a text or None
str(x) == IF x = None THEN "None" ELSE x

\* str.upper() on the texts the callers pass
upper(s) ==
    CASE s = "on" -> "ON"
      [] s = "off" -> "OFF"
      [] s = "both" -> "BOTH"
      [] s = "vertical" -> "VERTICAL"
      [] s = "auto" -> "AUTO"
      [] s = "low" -> "LOW"
      [] s = "medium" -> "MEDIUM"
      [] s = "high" -> "HIGH"
      [] s = "heat" -> "HEAT"
      [] s = "cool" -> "COOL"
      [] s = "dry" -> "DRY"
      [] s = "fan_only" -> "FAN_ONLY"
      [] OTHER -> s

\* float(text) for the decimal texts of the protocol, in tenths
float(s) ==
    CASE s = "19.0" -> 190
      [] s = "21.5" -> 215
      [] s = "23" -> 230
      [] s = "24.0" -> 240
      [] s = "26" -> 260

\* f"{x}" for a float x, in tenths
format_float(x) ==
    CASE x = 190 -> "19.0"
      [] x = 215 -> "21.5"
      [] x = 240 -> "24.0"

get_zone_name(zone) ==
    CASE str(zone) = "1" -> "Living Room"
      [] str(zone) = "2" -> "Kitchen"
      [] str(zone) = "3" -> "Hallway"
      [] OTHER -> "Zone " \o str(zone)

map_hvac_mode_to_mode(hvac_mode) ==
    IF hvac_mode = "fan_only" THEN "FAN" ELSE upper(hvac_mode)

\* what evaluating an expression gives when it raises AttributeError
AttributeError == "<AttributeError>"

\* x.lower() on the texts of the protocol; None has no such method
lower(x) ==
    CASE x = None -> AttributeError
      [] x = "LOW" -> "low"
      [] x = "HIGH" -> "high"
      [] x = "AUTO" -> "auto"
      [] x = "MID1" -> "mid1"
      [] x = "MID2" -> "mid2"
      [] x = "SWING" -> "swing"
      [] x = "VERTICAL" -> "vertical"
      [] x = "HORIZONTAL" -> "horizontal"
      [] OTHER -> x

\* map_mode_to_hvac_mode without the test of drive
map_mode_to_hvac_mode_nodrive(mode, drive) ==
    CASE mode = "COOL" -> "cool"
      [] mode = "HEAT" -> "heat"
      [] mode = "FAN" -> "fan_only"
      [] mode = "DRY" -> "dry"
      [] OTHER -> "off"

map_mode_to_hvac_mode(mode, drive) ==
    IF drive = "OFF" THEN "off"
    ELSE CASE mode = "COOL" -> "cool"
           [] mode = "HEAT" -> "heat"
           [] mode = "FAN" -> "fan_only"
           [] mode = "DRY" -> "dry"
           [] OTHER -> "off"

map_mode_to_hvac_action(mode, drive) ==
    IF drive = "OFF" THEN "idle"
    ELSE CASE mode = "COOL" -> "cooling"
           [] mode = "HEAT" -> "heating"
           [] mode = "FAN" -> "fan"
           [] mode = "DRY" -> "drying"
           [] OTHER -> "idle"

\* map_fan_speed_to_fan_mode without the line for MID2
map_fan_speed_to_fan_mode_plain(fan_speed) ==
    IF fan_speed = "MID1" THEN "medium" ELSE lower(fan_speed)

map_fan_speed_to_fan_mode(fan_speed) ==
    IF fan_speed = "MID1" THEN "medium"
    ELSE IF fan_speed = "MID2" THEN "low"
    ELSE lower(fan_speed)

map_fan_mode_to_fan_speed(fan_mode) ==
    IF fan_mode = "medium" THEN "MID1" ELSE upper(fan_mode)

map_swing_to_air_direction(swing) ==
    CASE swing = "off" -> "MID1"
      [] swing = "on" -> "SWING"
      [] swing = "both" -> "MID2"
      [] OTHER -> upper(swing)

\* map_air_direction_to_swing with the lines for SWING and MID2 exchanged
map_air_direction_to_swing_crossed(air_direction) ==
    CASE air_direction = "MID1" -> "off"
      [] air_direction = "SWING" -> "both"
      [] air_direction = "MID2" -> "on"
      [] OTHER -> lower(air_direction)

map_air_direction_to_swing(air_direction) ==
    CASE air_direction = "MID1" -> "off"
      [] air_direction = "SWING" -> "on"
      [] air_direction = "MID2" -> "both"
      [] OTHER -> lower(air_direction)

(***************************************************************************)
(* Requests.  An Mnet element of a request is its Group, its attributes    *)
(* and whether its text is well-formed XML.                                *)
(***************************************************************************)
NoAttrs ==
    [SetTemp |-> None, InletTemp |-> None, Drive |-> None, Mode |-> None,
     FanSpeed |-> None, AirDirection |-> None]

AllStar ==
    [SetTemp |-> "*", InletTemp |-> "*", Drive |-> "*", Mode |-> "*",
     FanSpeed |-> "*", AirDirection |-> "*"]

xml_mnet_for_zone(zone_id) ==
    [Group |-> zone_id, attrs |-> AllStar, wf |-> TRUE]

construct_request_xml(command, mnets) ==
    [cmd |-> command, mnets |-> mnets]

xml_request_for_zones(command, no_zones) ==
    construct_request_xml(command,
        [i \in 1..no_zones |-> xml_mnet_for_zone(ToString(i))])

NoReq == [cmd |-> "", mnets |-> <<>>]

(***************************************************************************)
(* G50Zone.  kw is the keyword arguments of the constructor and of         *)
(* update_zone, None where kwargs.get() finds nothing.                     *)
(***************************************************************************)
G50Zone_init(name, kw) ==
    [name |-> name,
     set_temp |-> IF kw.set_temp # None THEN Some(float(kw.set_temp)) ELSE Unset,
     inlet_temp |-> IF kw.inlet_temp # None THEN Some(float(kw.inlet_temp)) ELSE Unset,
     drive |-> kw.drive,
     mode |-> str(kw.mode),
     fan_speed |-> kw.fan_speed,
     air_direction |-> kw.air_direction,
     last_updated |-> kw.last_updated]

\* G50Zone(...) evaluated to store the object in dict d.  oid is the identity
\* of the new object: the number of objects d holds, which no object of d
\* has while d never loses a key
G50Zone_new(d, name, kw) ==
    [oid |-> Cardinality(DOMAIN d)] @@ G50Zone_init(name, kw)

\* update_zone that forgets a temperature the response does not report
G50Zone_update_zone_reset(self, name, kw) ==
    [oid |-> self.oid] @@ G50Zone_init(name, kw)

\* the object self, assigned to in place
G50Zone_update_zone(self, name, kw) ==
    [self EXCEPT
        !.name = name,
        !.set_temp = IF kw.set_temp # None THEN Some(float(kw.set_temp)) ELSE @,
        !.inlet_temp = IF kw.inlet_temp # None THEN Some(float(kw.inlet_temp)) ELSE @,
        !.drive = kw.drive,
        !.mode = str(kw.mode),
        !.fan_speed = kw.fan_speed,
        !.air_direction = kw.air_direction,
        !.last_updated = kw.last_updated]

\* the properties of G50Zone
G50Zone_g50_mode(self) == self.mode
G50Zone_hvac_mode(self) == map_mode_to_hvac_mode(self.mode, self.drive)
G50Zone_hvac_action(self) == map_mode_to_hvac_action(self.mode, self.drive)
G50Zone_fan_mode(self) == map_fan_speed_to_fan_mode(self.fan_speed)
G50Zone_swing_mode(self) == map_air_direction_to_swing(self.air_direction)

\* the keyword arguments built from one Mnet element of a response
mnet_kwargs(mnet, stamp) ==
    [set_temp |-> mnet.attrs.SetTemp,
     inlet_temp |-> mnet.attrs.InletTemp,
     drive |-> mnet.attrs.Drive,
     mode |-> mnet.attrs.Mode,
     fan_speed |-> mnet.attrs.FanSpeed,
     air_direction |-> mnet.attrs.AirDirection,
     last_updated |-> stamp]

\* d[k] = v for a dict d
dict_set(d, k, v) ==
    [x \in (DOMAIN d) \cup {k} |-> IF x = k THEN v ELSE d[x]]

(***************************************************************************)
(* Responses.  A response text is well-formed XML with or without an ERROR *)
(* element and with a sequence of Mnet elements, or it is malformed; a     *)
(* failed transport delivers no text.                                      *)
(***************************************************************************)
NoResp == [kind |-> "none", err |-> FALSE, mnets |-> <<>>]
TransportFailure == [kind |-> "failure", err |-> FALSE, mnets |-> <<>>]
Malformed == [kind |-> "malformed", err |-> FALSE, mnets |-> <<>>]
Xml(err, mnets) == [kind |-> "xml", err |-> err, mnets |-> mnets]

\* ET.fromstring(response) raises on a malformed text
fromstring_ok(resp) == resp.kind = "xml"

\* root.findall(".//ERROR")
has_error(resp) == resp.err

(***************************************************************************)
(* MitsubishiG50a.parse_response: the body of its loop, and the loop.      *)
(***************************************************************************)
\* parse_mnet that skips a group that is not a key of zones
parse_mnet_known_only(zs, stamp, mnet) ==
    IF mnet.Group \notin DOMAIN zs
    THEN zs
    ELSE dict_set(zs, mnet.Group,
                  G50Zone_update_zone(zs[mnet.Group], get_zone_name(mnet.Group),
                                      mnet_kwargs(mnet, stamp)))

\* parse_mnet that stores a new G50Zone for a known group as well
parse_mnet_replace(zs, stamp, mnet) ==
    dict_set(zs, mnet.Group,
             G50Zone_new(zs, get_zone_name(mnet.Group), mnet_kwargs(mnet, stamp)))

parse_mnet(zs, stamp, mnet) ==
    LET zone_id == mnet.Group IN
    IF zone_id \notin DOMAIN zs
    THEN dict_set(zs, zone_id,
                  G50Zone_new(zs, get_zone_name(zone_id), mnet_kwargs(mnet, stamp)))
    ELSE dict_set(zs, zone_id,
                  G50Zone_update_zone(zs[zone_id], get_zone_name(zone_id),
                                      mnet_kwargs(mnet, stamp)))

RECURSIVE parse_mnets(_, _, _)
parse_mnets(zs, stamp, mnets) ==
    IF mnets = <<>> THEN zs
    ELSE parse_mnets(parse_mnet(zs, stamp, Head(mnets)), stamp, Tail(mnets))

parse_response(zs, stamp, resp) == parse_mnets(zs, stamp, resp.mnets)

(***************************************************************************)
(* The device.  It holds six attribute texts per group, answers a          *)
(* getRequest from them and applies a setRequest to them.  What it         *)
(* reports is its own choice: all attributes, no temperatures, the Group   *)
(* alone, another group, nothing, an ERROR element, or a malformed text.   *)
(***************************************************************************)
AllGroups == {ToString(i) : i \in 1..MAX_ZONES}

BundleA ==
    [SetTemp |-> "21.5", InletTemp |-> "23", Drive |-> "ON", Mode |-> "COOL",
     FanSpeed |-> "MID2", AirDirection |-> "SWING"]

BundleB ==
    [SetTemp |-> "24.0", InletTemp |-> "26", Drive |-> "OFF", Mode |-> "HEAT",
     FanSpeed |-> "HIGH", AirDirection |-> "MID1"]

DevInit ==
    [g \in AllGroups |-> IF g \in {"1", "3", "5", "7", "9"} THEN BundleA ELSE BundleB]

Shapes == {"full", "notemps", "bare"}

Shape(attrs, shape) ==
    CASE shape = "full" -> attrs
      [] shape = "notemps" -> [attrs EXCEPT !.SetTemp = None, !.InletTemp = None]
      [] shape = "bare" -> NoAttrs

ReplyMnet(d, g, shape) == [Group |-> g, attrs |-> Shape(d[g], shape)]

\* the group after g, the last one wrapping to the first
NextGroup(g) ==
    LET i == CHOOSE i \in 1..MAX_ZONES : ToString(i) = g
    IN ToString((i % MAX_ZONES) + 1)

Echo(d, req, shape) ==
    [i \in 1..Len(req.mnets) |-> ReplyMnet(d, req.mnets[i].Group, shape)]

Stray(d, req) ==
    <<ReplyMnet(d, NextGroup(req.mnets[Len(req.mnets)].Group), "full")>>

DeviceGetReplies(d, req) ==
    {Xml(FALSE, Echo(d, req, shape)) : shape \in Shapes}
    \cup {Xml(FALSE, Stray(d, req)), Xml(FALSE, <<>>),
          Xml(TRUE, <<>>), Xml(TRUE, Echo(d, req, "full")), Malformed}

\* the text the device keeps and reports for a written attribute: a written
\* FanSpeed LOW reads back as MID2
DeviceEcho(attr, text) ==
    IF attr = "FanSpeed" /\ text = "LOW" THEN "MID2" ELSE text

DeviceWrite(old, attrs) ==
    [a \in DOMAIN old |-> IF attrs[a] = None THEN old[a] ELSE DeviceEcho(a, attrs[a])]

RECURSIVE DeviceApply(_, _, _)
DeviceApply(d, mnets, lenient) ==
    IF mnets = <<>> THEN d
    ELSE LET m == Head(mnets)
             d1 == IF m.Group \in DOMAIN d /\ (m.wf \/ lenient)
                   THEN [d EXCEPT ![m.Group] = DeviceWrite(d[m.Group], m.attrs)]
                   ELSE d
         IN DeviceApply(d1, Tail(mnets), lenient)

DeviceSetReplies == {Xml(FALSE, <<>>), Malformed}

(***************************************************************************)
(* The config entry.  hass.data is hass.data[DOMAIN], entry is where the   *)
(* entry stands: setup while async_setup_entry awaits enumerate_zones,     *)
(* loaded when it has returned True, failed when it has raised, and after  *)
(* async_unload_entry unloaded, not_unloaded (it returned False) or        *)
(* unload_failed (it raised).  result is what the last of them returned or *)
(* raised.                                                                 *)
(***************************************************************************)
CONF_HOST == "g50a.lan"         \* config_entry.data[CONF_HOST]
entry_id == "01JBENTRYID"       \* config_entry.entry_id

\* the MitsubishiG50a object, whose fields are zones and last_updated
Device == "MitsubishiG50a"

HassSetup == [data |-> [x \in {} |-> 0], entry |-> "setup", result |-> ""]

HassLoaded ==
    [data |-> [x \in {CONF_HOST} |-> Device], entry |-> "loaded", result |-> "True"]

(***************************************************************************)
(* enumerate_zones.  enum.zone_id is the loop variable, pc is where the    *)
(* coroutine stands: at the head of the loop, awaiting send_request, or    *)
(* returned.  resp is the last response it got.  plain, odd and errAt      *)
(* record what the device has answered: whether every reply so far held    *)
(* Mnet elements of the probed group only, how many did not, and the probe *)
(* that was answered with an ERROR.                                        *)
(***************************************************************************)
EmptyDict == [x \in {} |-> 0]

EnumIdle ==
    [pc |-> "idle", zone_id |-> 0, enumerated_zones |-> EmptyDict, req |-> NoReq,
     resp |-> NoResp, nreq |-> 0, result |-> "", plain |-> TRUE, odd |-> 0,
     errAt |-> 0]

EnumStart == [EnumIdle EXCEPT !.pc = "loop", !.zone_id = 1]

\* enumerate_mnet with the zone stored under its name
enumerate_mnet_by_name(ez, stamp, mnet) ==
    dict_set(ez, get_zone_name(mnet.Group),
             G50Zone_new(ez, get_zone_name(mnet.Group), mnet_kwargs(mnet, stamp)))

\* one pass of the loop over root.findall(".//Mnet")
enumerate_mnet(ez, stamp, mnet) ==
    dict_set(ez, str(mnet.Group),
             G50Zone_new(ez, get_zone_name(mnet.Group), mnet_kwargs(mnet, stamp)))

RECURSIVE enumerate_mnets(_, _, _)
enumerate_mnets(ez, stamp, mnets) ==
    IF mnets = <<>> THEN ez
    ELSE enumerate_mnets(enumerate_mnet(ez, stamp, Head(mnets)), stamp, Tail(mnets))

\* a reply that holds one or more Mnet elements, all of the probed group
PlainReply(reply, zone_id) ==
    /\ reply.kind = "xml"
    /\ reply.mnets # <<>>
    /\ \A i \in 1..Len(reply.mnets) : reply.mnets[i].Group = ToString(zone_id)

\* the head of a loop over range(1, MAX_ZONES + 2)
enumerate_zones_probe_one_more ==
    /\ enum.pc = "loop"
    /\ IF enum.zone_id > MAX_ZONES + 1
       THEN enum' = [enum EXCEPT !.pc = "done", !.result = "ok"]
       ELSE enum' = [enum EXCEPT
                !.pc = "await",
                !.req = construct_request_xml(GET_COMMAND,
                            <<xml_mnet_for_zone(ToString(enum.zone_id))>>),
                !.nreq = @ + 1]
    /\ UNCHANGED <<zones, last_updated, now, dev, calls, made, hass>>

\* the head of the loop: leave it past MAX_ZONES, else send the probe
enumerate_zones_probe ==
    /\ enum.pc = "loop"
    /\ IF enum.zone_id > MAX_ZONES
       THEN enum' = [enum EXCEPT !.pc = "done", !.result = "ok"]
       ELSE enum' = [enum EXCEPT
                !.pc = "await",
                !.req = construct_request_xml(GET_COMMAND,
                            <<xml_mnet_for_zone(ToString(enum.zone_id))>>),
                !.nreq = @ + 1]
    /\ UNCHANGED <<zones, last_updated, now, dev, calls, made, hass>>

\* the rest of the loop body with the Mnet elements stored before the ERROR
\* elements are looked for
enumerate_zones_resume_store_first ==
    /\ enum.pc = "await"
    /\ \E reply \in DeviceGetReplies(dev, enum.req) \cup {TransportFailure} :
        LET full == reply = Xml(FALSE, Echo(dev, enum.req, "full"))
            ends == reply.kind # "xml" \/ has_error(reply)
        IN
        /\ full \/ ends \/ enum.odd < MaxOdd
        /\ enum' =
            IF reply.kind = "failure"
            THEN [enum EXCEPT !.pc = "done", !.result = "ConnectionError"]
            ELSE IF ~fromstring_ok(reply)
            THEN [enum EXCEPT !.pc = "done", !.resp = reply, !.result = "ParseError"]
            ELSE IF has_error(reply)
            THEN [enum EXCEPT !.pc = "done", !.resp = reply, !.result = "ok",
                              !.errAt = enum.zone_id,
                              !.enumerated_zones = enumerate_mnets(@, now, reply.mnets)]
            ELSE [enum EXCEPT
                    !.pc = "loop",
                    !.resp = reply,
                    !.zone_id = @ + 1,
                    !.enumerated_zones = enumerate_mnets(@, now, reply.mnets),
                    !.plain = @ /\ PlainReply(reply, enum.zone_id),
                    !.odd = IF full THEN @ ELSE @ + 1]
    /\ UNCHANGED <<zones, last_updated, now, dev, calls, made, hass>>

\* send_request returns or raises, and the rest of the loop body runs
enumerate_zones_resume ==
    /\ enum.pc = "await"
    /\ \E reply \in DeviceGetReplies(dev, enum.req) \cup {TransportFailure} :
        LET full == reply = Xml(FALSE, Echo(dev, enum.req, "full"))
            ends == reply.kind # "xml" \/ has_error(reply)
        IN
        /\ full \/ ends \/ enum.odd < MaxOdd
        /\ enum' =
            IF reply.kind = "failure"
            THEN [enum EXCEPT !.pc = "done", !.result = "ConnectionError"]
            ELSE IF ~fromstring_ok(reply)
            THEN [enum EXCEPT !.pc = "done", !.resp = reply, !.result = "ParseError"]
            ELSE IF has_error(reply)
            THEN [enum EXCEPT !.pc = "done", !.resp = reply, !.result = "ok",
                              !.errAt = enum.zone_id]
            ELSE [enum EXCEPT
                    !.pc = "loop",
                    !.resp = reply,
                    !.zone_id = @ + 1,
                    !.enumerated_zones = enumerate_mnets(@, now, reply.mnets),
                    !.plain = @ /\ PlainReply(reply, enum.zone_id),
                    !.odd = IF full THEN @ ELSE @ + 1]
    /\ UNCHANGED <<zones, last_updated, now, dev, calls, made, hass>>

(***************************************************************************)
(* The coroutines of MitsubishiG50a.  Each invocation is a call: idle      *)
(* until it is made, sent while its request is on the way, replied when    *)
(* send_request has its outcome, done when it has returned or raised.      *)
(* known records whether zone_id was a key of zones when the call was      *)
(* made, during the calls that were in flight then.                        *)
(***************************************************************************)
Calls == 1..NCalls

IdleCall ==
    [op |-> "", pc |-> "idle", zone_id |-> "", arg |-> "", temp |-> 0,
     req |-> NoReq, resp |-> NoResp, nreq |-> 0, result |-> "", t0 |-> 0,
     known |-> FALSE, during |-> {}]

\* a call is made on a gateway, which exists once enumerate_zones is over
CanStart(c) ==
    /\ enum.pc = "idle"
    /\ calls[c].pc = "idle"
    /\ made < MaxCalls
    /\ made' = made + 1

Begin(op, zone_id, arg, temp) ==
    [IdleCall EXCEPT !.op = op, !.zone_id = zone_id, !.arg = arg, !.temp = temp,
                     !.t0 = now, !.known = zone_id \in DOMAIN zones,
                     !.during = {c \in Calls : calls[c].pc \in {"sent", "replied"}}]

Sent(call, req) == [call EXCEPT !.pc = "sent", !.req = req, !.nreq = @ + 1]
\* the locals of a coroutine that has returned or raised are gone
Done(call, result) ==
    [call EXCEPT !.pc = "done", !.result = result, !.req = NoReq, !.resp = NoResp]

SetMnet(zone_id, attrs, wf) == [Group |-> zone_id, attrs |-> attrs, wf |-> wf]

\* the inputs of the callers
ZoneArgs == {"1", "3"}
OnOffArgs == {"ON", "off"}
HvacModes == {"off", "fan_only"}
SwingModes == {"off", "on", "both"}
FanModes == {"auto", "low", "medium", "high"}
Temps == {190, 215}

\* send_request: the request reaches the device or not, and the reply comes
\* back or not; a malformed element is applied by a lenient device only
send_request(c) ==
    /\ calls[c].pc = "sent"
    /\ \E delivered \in BOOLEAN, lenient \in BOOLEAN :
        LET req == calls[c].req
            replies == IF req.cmd = GET_COMMAND
                       THEN DeviceGetReplies(dev, req)
                       ELSE DeviceSetReplies
        IN
        \E reply \in (IF delivered THEN replies ELSE {}) \cup {TransportFailure} :
            /\ dev' = IF delivered /\ req.cmd = SET_COMMAND
                      THEN DeviceApply(dev, req.mnets, lenient)
                      ELSE dev
            /\ calls' = [calls EXCEPT ![c].pc = "replied", ![c].resp = reply]
    /\ UNCHANGED <<zones, last_updated, now, made, enum, hass>>

failed(c) == calls[c].resp.kind = "failure"
Resuming(c, op) == calls[c].pc = "replied" /\ calls[c].op = op

(***************************************************************************)
(* turn_on_off                                                             *)
(***************************************************************************)
\* turn_on_off without the early return
turn_on_off_call_always(c, zone_id, on_off) ==
    /\ CanStart(c)
    /\ LET drive == upper(on_off)
           call == Begin("turn_on_off", zone_id, drive, 0)
       IN
       calls' = [calls EXCEPT ![c] =
            IF zone_id \notin DOMAIN zones THEN Done(call, "KeyError")
            ELSE Sent(call, construct_request_xml(SET_COMMAND,
                    <<SetMnet(zone_id, [NoAttrs EXCEPT !.Drive = drive], FALSE)>>))]
    /\ UNCHANGED <<zones, last_updated, now, dev, enum, hass>>

turn_on_off_call(c, zone_id, on_off) ==
    /\ CanStart(c)
    /\ LET drive == upper(on_off)
           call == Begin("turn_on_off", zone_id, drive, 0)
       IN
       calls' = [calls EXCEPT ![c] =
            IF zone_id \notin DOMAIN zones THEN Done(call, "KeyError")
            ELSE IF zones[zone_id].drive = drive THEN Done(call, "ok")
            ELSE Sent(call, construct_request_xml(SET_COMMAND,
                    <<SetMnet(zone_id, [NoAttrs EXCEPT !.Drive = drive], FALSE)>>))]
    /\ UNCHANGED <<zones, last_updated, now, dev, enum, hass>>

\* turn_on_off that stores the drive before it looks at the outcome
turn_on_off_resume_eager(c) ==
    /\ Resuming(c, "turn_on_off")
    /\ zones' = [zones EXCEPT ![calls[c].zone_id].drive = calls[c].arg]
    /\ calls' = [calls EXCEPT ![c] =
            Done(@, IF failed(c) THEN "ConnectionError" ELSE "ok")]
    /\ UNCHANGED <<last_updated, now, dev, made, enum, hass>>

turn_on_off_resume(c) ==
    /\ Resuming(c, "turn_on_off")
    /\ IF failed(c)
       THEN /\ calls' = [calls EXCEPT ![c] = Done(@, "ConnectionError")]
            /\ UNCHANGED zones
       ELSE /\ zones' = [zones EXCEPT ![calls[c].zone_id].drive = calls[c].arg]
            /\ calls' = [calls EXCEPT ![c] = Done(@, "ok")]
    /\ UNCHANGED <<last_updated, now, dev, made, enum, hass>>

(***************************************************************************)
(* set_system_mode                                                         *)
(***************************************************************************)
set_system_mode_call(c, zone_id, hvac_mode) ==
    /\ CanStart(c)
    /\ LET new_mode == map_hvac_mode_to_mode(hvac_mode)
           mnet == IF hvac_mode = "off"
                   THEN SetMnet(zone_id, [NoAttrs EXCEPT !.Drive = "OFF"], TRUE)
                   ELSE SetMnet(zone_id,
                            [NoAttrs EXCEPT !.Drive = "ON", !.Mode = new_mode], TRUE)
       IN
       calls' = [calls EXCEPT ![c] =
            Sent(Begin("set_system_mode", zone_id, hvac_mode, 0),
                 construct_request_xml(SET_COMMAND, <<mnet>>))]
    /\ UNCHANGED <<zones, last_updated, now, dev, enum, hass>>

\* set_system_mode that stores the commanded mode as the other setters do
set_system_mode_resume_optimistic(c) ==
    /\ Resuming(c, "set_system_mode")
    /\ IF failed(c) \/ calls[c].zone_id \notin DOMAIN zones
       THEN UNCHANGED zones
       ELSE zones' = [zones EXCEPT
                ![calls[c].zone_id].mode = map_hvac_mode_to_mode(calls[c].arg)]
    /\ calls' = [calls EXCEPT ![c] =
            Done(@, IF failed(c) THEN "ConnectionError" ELSE "ok")]
    /\ UNCHANGED <<last_updated, now, dev, made, enum, hass>>

set_system_mode_resume(c) ==
    /\ Resuming(c, "set_system_mode")
    /\ calls' = [calls EXCEPT ![c] =
            Done(@, IF failed(c) THEN "ConnectionError" ELSE "ok")]
    /\ UNCHANGED <<zones, last_updated, now, dev, made, enum, hass>>

(***************************************************************************)
(* set_swing_mode                                                          *)
(***************************************************************************)
set_swing_mode_call(c, zone_id, swing_mode) ==
    /\ CanStart(c)
    /\ LET air_direction == map_swing_to_air_direction(swing_mode) IN
       calls' = [calls EXCEPT ![c] =
            Sent(Begin("set_swing_mode", zone_id, swing_mode, 0),
                 construct_request_xml(SET_COMMAND,
                    <<SetMnet(zone_id,
                        [NoAttrs EXCEPT !.AirDirection = air_direction], TRUE)>>))]
    /\ UNCHANGED <<zones, last_updated, now, dev, enum, hass>>

set_swing_mode_resume(c) ==
    /\ Resuming(c, "set_swing_mode")
    /\ IF failed(c)
       THEN /\ calls' = [calls EXCEPT ![c] = Done(@, "ConnectionError")]
            /\ UNCHANGED zones
       ELSE IF calls[c].zone_id \notin DOMAIN zones
       THEN /\ calls' = [calls EXCEPT ![c] = Done(@, "KeyError")]
            /\ UNCHANGED zones
       ELSE /\ zones' = [zones EXCEPT ![calls[c].zone_id].air_direction =
                            map_swing_to_air_direction(calls[c].arg)]
            /\ calls' = [calls EXCEPT ![c] = Done(@, "ok")]
    /\ UNCHANGED <<last_updated, now, dev, made, enum, hass>>

(***************************************************************************)
(* set_fan_mode                                                            *)
(***************************************************************************)
set_fan_mode_call(c, zone_id, fan_mode) ==
    /\ CanStart(c)
    /\ LET fan_speed == map_fan_mode_to_fan_speed(fan_mode) IN
       calls' = [calls EXCEPT ![c] =
            Sent(Begin("set_fan_mode", zone_id, fan_mode, 0),
                 construct_request_xml(SET_COMMAND,
                    <<SetMnet(zone_id, [NoAttrs EXCEPT !.FanSpeed = fan_speed], TRUE)>>))]
    /\ UNCHANGED <<zones, last_updated, now, dev, enum, hass>>

\* set_fan_mode that stores the fan mode instead of the mapped fan speed
set_fan_mode_resume_unmapped(c) ==
    /\ Resuming(c, "set_fan_mode")
    /\ IF failed(c)
       THEN /\ calls' = [calls EXCEPT ![c] = Done(@, "ConnectionError")]
            /\ UNCHANGED zones
       ELSE IF calls[c].zone_id \notin DOMAIN zones
       THEN /\ calls' = [calls EXCEPT ![c] = Done(@, "KeyError")]
            /\ UNCHANGED zones
       ELSE /\ zones' = [zones EXCEPT ![calls[c].zone_id].fan_speed = upper(calls[c].arg)]
            /\ calls' = [calls EXCEPT ![c] = Done(@, "ok")]
    /\ UNCHANGED <<last_updated, now, dev, made, enum, hass>>

\* set_fan_mode that leaves the zone as it was
set_fan_mode_resume_forget(c) ==
    /\ Resuming(c, "set_fan_mode")
    /\ IF failed(c)
       THEN calls' = [calls EXCEPT ![c] = Done(@, "ConnectionError")]
       ELSE IF calls[c].zone_id \notin DOMAIN zones
       THEN calls' = [calls EXCEPT ![c] = Done(@, "KeyError")]
       ELSE calls' = [calls EXCEPT ![c] = Done(@, "ok")]
    /\ UNCHANGED <<zones, last_updated, now, dev, made, enum, hass>>

set_fan_mode_resume(c) ==
    /\ Resuming(c, "set_fan_mode")
    /\ IF failed(c)
       THEN /\ calls' = [calls EXCEPT ![c] = Done(@, "ConnectionError")]
            /\ UNCHANGED zones
       ELSE IF calls[c].zone_id \notin DOMAIN zones
       THEN /\ calls' = [calls EXCEPT ![c] = Done(@, "KeyError")]
            /\ UNCHANGED zones
       ELSE /\ zones' = [zones EXCEPT ![calls[c].zone_id].fan_speed =
                            map_fan_mode_to_fan_speed(calls[c].arg)]
            /\ calls' = [calls EXCEPT ![c] = Done(@, "ok")]
    /\ UNCHANGED <<last_updated, now, dev, made, enum, hass>>

(***************************************************************************)
(* set_temperature                                                         *)
(***************************************************************************)
set_temperature_call(c, zone_id, target_temperature) ==
    /\ CanStart(c)
    /\ calls' = [calls EXCEPT ![c] =
            Sent(Begin("set_temperature", zone_id, "", target_temperature),
                 construct_request_xml(SET_COMMAND,
                    <<SetMnet(zone_id,
                        [NoAttrs EXCEPT !.SetTemp = format_float(target_temperature)],
                        TRUE)>>))]
    /\ UNCHANGED <<zones, last_updated, now, dev, enum, hass>>

set_temperature_resume(c) ==
    /\ Resuming(c, "set_temperature")
    /\ IF failed(c)
       THEN /\ calls' = [calls EXCEPT ![c] = Done(@, "ConnectionError")]
            /\ UNCHANGED zones
       ELSE IF calls[c].zone_id \notin DOMAIN zones
       THEN /\ calls' = [calls EXCEPT ![c] = Done(@, "KeyError")]
            /\ UNCHANGED zones
       ELSE /\ zones' = [zones EXCEPT ![calls[c].zone_id].set_temp = Some(calls[c].temp)]
            /\ calls' = [calls EXCEPT ![c] = Done(@, "ok")]
    /\ UNCHANGED <<last_updated, now, dev, made, enum, hass>>

(***************************************************************************)
(* update_zone and update_zones                                            *)
(***************************************************************************)
update_zone_call(c, zone_id) ==
    /\ CanStart(c)
    /\ calls' = [calls EXCEPT ![c] =
            Sent(Begin("update_zone", zone_id, "", 0),
                 construct_request_xml(GET_COMMAND, <<xml_mnet_for_zone(zone_id)>>))]
    /\ UNCHANGED <<zones, last_updated, now, dev, enum, hass>>

\* a refresh that drops a malformed text and returns
refresh_resume_swallow(c) ==
    IF failed(c)
    THEN /\ calls' = [calls EXCEPT ![c] = Done(@, "ConnectionError")]
         /\ UNCHANGED zones
    ELSE IF ~fromstring_ok(calls[c].resp)
    THEN /\ calls' = [calls EXCEPT ![c] = Done(@, "ok")]
         /\ UNCHANGED zones
    ELSE /\ zones' = parse_response(zones, last_updated, calls[c].resp)
         /\ calls' = [calls EXCEPT ![c] = Done(@, "ok")]

\* the rest of a refresh: send_request raises, or parse_response raises on
\* a malformed text, or it stores every Mnet element
refresh_resume(c) ==
    IF failed(c)
    THEN /\ calls' = [calls EXCEPT ![c] = Done(@, "ConnectionError")]
         /\ UNCHANGED zones
    ELSE IF ~fromstring_ok(calls[c].resp)
    THEN /\ calls' = [calls EXCEPT ![c] = Done(@, "ParseError")]
         /\ UNCHANGED zones
    ELSE /\ zones' = parse_response(zones, last_updated, calls[c].resp)
         /\ calls' = [calls EXCEPT ![c] = Done(@, "ok")]

update_zone_resume(c) ==
    /\ Resuming(c, "update_zone")
    /\ refresh_resume(c)
    /\ UNCHANGED <<last_updated, now, dev, made, enum, hass>>

\* time.time_ns() - 0
since == now - 0

\* update_zones that asks for as many zones as the gateway holds
update_zones_call_held(c) ==
    /\ CanStart(c)
    /\ IF since > STALE_MS
       THEN /\ last_updated' = now
            /\ calls' = [calls EXCEPT ![c] =
                    Sent(Begin("update_zones", "", "", 0),
                         xml_request_for_zones(GET_COMMAND, Cardinality(DOMAIN zones)))]
       ELSE /\ calls' = [calls EXCEPT ![c] = Done(Begin("update_zones", "", "", 0), "ok")]
            /\ UNCHANGED last_updated
    /\ UNCHANGED <<zones, now, dev, enum, hass>>

update_zones_call(c) ==
    /\ CanStart(c)
    /\ IF since > STALE_MS
       THEN /\ last_updated' = now
            /\ calls' = [calls EXCEPT ![c] =
                    Sent(Begin("update_zones", "", "", 0),
                         xml_request_for_zones(GET_COMMAND, BULK_ZONES))]
       ELSE /\ calls' = [calls EXCEPT ![c] = Done(Begin("update_zones", "", "", 0), "ok")]
            /\ UNCHANGED last_updated
    /\ UNCHANGED <<zones, now, dev, enum, hass>>

update_zones_resume(c) ==
    /\ Resuming(c, "update_zones")
    /\ refresh_resume(c)
    /\ UNCHANGED <<last_updated, now, dev, made, enum, hass>>

(***************************************************************************)
(* The caller has the outcome of a call and the coroutine is gone.         *)
(***************************************************************************)
Return(c) ==
    /\ calls[c].pc = "done"
    /\ made < MaxCalls
    /\ calls' = [calls EXCEPT ![c] = IdleCall]
    /\ UNCHANGED <<zones, last_updated, now, dev, made, enum, hass>>

(***************************************************************************)
(* The clock.  The gateway reads it only when a call is made, so the time   *)
(* that passes while a call is in flight is counted before the next call.  *)
(***************************************************************************)
Tick ==
    /\ now < StartTime + MaxTicks * TickMs
    /\ \A c \in Calls : calls[c].pc \in {"idle", "done"}
    /\ now' = now + TickMs
    /\ UNCHANGED <<zones, last_updated, dev, calls, made, enum, hass>>

(***************************************************************************)
(* The gateway after construction: zones as enumerate_zones returned them  *)
(* at StartTime from the groups the device then reported, last_updated 0.  *)
(***************************************************************************)
InitZones(n) ==
    enumerate_mnets(EmptyDict, StartTime,
        [i \in 1..n |-> ReplyMnet(DevInit, ToString(i), "full")])

Init ==
    /\ \E n \in 1..MaxInitZones : zones = InitZones(n)
    /\ last_updated = 0
    /\ now = StartTime
    /\ dev = DevInit
    /\ calls = [c \in Calls |-> IdleCall]
    /\ made = 0
    /\ enum = EnumIdle
    /\ hass = HassLoaded

\* one caller, which awaits each call before it makes the next
Caller == {1}

Next ==
    \/ Tick
    \/ \E c \in Caller :
        \/ Return(c)
        \/ \E z \in ZoneArgs, v \in OnOffArgs : turn_on_off_call(c, z, v)
        \/ \E z \in ZoneArgs, m \in HvacModes : set_system_mode_call(c, z, m)
        \/ \E z \in ZoneArgs, s \in SwingModes : set_swing_mode_call(c, z, s)
        \/ \E z \in ZoneArgs, f \in FanModes : set_fan_mode_call(c, z, f)
        \/ \E z \in ZoneArgs, t \in Temps : set_temperature_call(c, z, t)
        \/ \E z \in ZoneArgs : update_zone_call(c, z)
        \/ update_zones_call(c)
        \/ send_request(c)
        \/ turn_on_off_resume(c)
        \/ set_system_mode_resume(c)
        \/ set_swing_mode_resume(c)
        \/ set_fan_mode_resume(c)
        \/ set_temperature_resume(c)
        \/ update_zone_resume(c)
        \/ update_zones_resume(c)

Spec == Init /\ [][Next]_vars

(***************************************************************************)
(* Enumeration on its own: enumerate_zones runs from its first probe, no   *)
(* gateway has been constructed yet.                                       *)
(***************************************************************************)
InitEnum ==
    /\ zones = EmptyDict
    /\ last_updated = 0
    /\ now = StartTime
    /\ dev = DevInit
    /\ calls = [c \in Calls |-> IdleCall]
    /\ made = 0
    /\ enum = EnumStart
    /\ hass = HassSetup

NextEnum ==
    \/ Tick
    \/ enumerate_zones_probe
    \/ enumerate_zones_resume

SpecEnum == InitEnum /\ [][NextEnum]_vars

(***************************************************************************)
(* Polling on its own: several entities refresh in the same tick, each     *)
(* with its own update_zones call, and the clock also runs while calls are *)
(* in flight.                                                              *)
(***************************************************************************)
TickBusy ==
    /\ now < StartTime + MaxTicks * TickMs
    /\ \E c \in Calls : calls[c].pc \in {"sent", "replied"}
    /\ now' = now + TickMs
    /\ UNCHANGED <<zones, last_updated, dev, calls, made, enum, hass>>

NextPoll ==
    \/ Tick
    \/ TickBusy
    \/ \E c \in Calls :
        \/ update_zones_call(c)
        \/ send_request(c)
        \/ update_zones_resume(c)

SpecPoll == Init /\ [][NextPoll]_vars

(***************************************************************************)
(* C1.  Two update_zones calls made less than 100 ms apart issue exactly   *)
(* one request between them.                                               *)
(***************************************************************************)
Apart(c1, c2) ==
    IF calls[c1].t0 >= calls[c2].t0
    THEN calls[c1].t0 - calls[c2].t0
    ELSE calls[c2].t0 - calls[c1].t0

C1_OneRequestWithin100ms ==
    \A c1, c2 \in Calls :
        (/\ c1 < c2
         /\ calls[c1].op = "update_zones"
         /\ calls[c2].op = "update_zones"
         /\ Apart(c1, c2) < STALE_MS)
        => calls[c1].nreq + calls[c2].nreq = 1

(***************************************************************************)
(* C2.  As claimed: when probe k is the first answered with an ERROR,      *)
(* enumerate_zones returns exactly the zones "1".."k-1".                   *)
(***************************************************************************)
FirstIds(n) == {ToString(i) : i \in 1..n}

C2_ErrorAtK_Original ==
    (enum.pc = "done" /\ enum.errAt # 0)
    => DOMAIN enum.enumerated_zones = FirstIds(enum.errAt - 1)

(***************************************************************************)
(* C2, amended.  When probe k is the first answered with an ERROR and      *)
(* every earlier reply held Mnet elements of the probed group only (one or *)
(* more), enumerate_zones returns exactly k-1 zones, keyed "1".."k-1".     *)
(***************************************************************************)
C2_ErrorAtK ==
    (enum.pc = "done" /\ enum.errAt # 0 /\ enum.plain)
    => /\ enum.result = "ok"
       /\ DOMAIN enum.enumerated_zones = FirstIds(enum.errAt - 1)
       /\ Cardinality(DOMAIN enum.enumerated_zones) = enum.errAt - 1

C2_Witness ==
    /\ enum.pc = "done"
    /\ enum.errAt = MAX_ZONES
    /\ enum.plain
    /\ Cardinality(DOMAIN enum.enumerated_zones) = MAX_ZONES - 1

(***************************************************************************)
(* Steps of a call, for the properties below.                              *)
(***************************************************************************)
Commands ==
    {"turn_on_off", "set_system_mode", "set_swing_mode", "set_fan_mode",
     "set_temperature"}

Refreshes == {"update_zone", "update_zones"}

\* the step in which call c is made as op
Made(c, op) == calls[c].pc = "idle" /\ calls'[c].pc # "idle" /\ calls'[c].op = op

\* the step in which send_request of call c gets its outcome
Outcome(c, op) == calls[c].op = op /\ calls[c].pc = "sent" /\ calls'[c].pc = "replied"

\* the step in which call c returns or raises after send_request
Finished(c, op) == calls[c].op = op /\ calls[c].pc = "replied" /\ calls'[c].pc = "done"

\* any step of call c as op
StepOf(c, op) == Made(c, op) \/ Outcome(c, op) \/ Finished(c, op)

(***************************************************************************)
(* C3.  turn_on_off on a zone whose drive already is the requested one     *)
(* sends nothing and changes nothing; otherwise it sends exactly one       *)
(* setRequest and, when send_request succeeds, the zone's drive is the     *)
(* requested one.                                                          *)
(***************************************************************************)
C3_TurnOnOff ==
    [][\A c \in Calls :
        LET z == calls'[c].zone_id
            v == calls'[c].arg
        IN
        /\ (Made(c, "turn_on_off") /\ calls'[c].known) =>
              /\ v \in {"ON", "OFF"}
              /\ IF zones[z].drive = v
                 THEN /\ calls'[c].pc = "done"
                      /\ calls'[c].result = "ok"
                      /\ calls'[c].nreq = 0
                      /\ UNCHANGED <<zones, last_updated, dev>>
                 ELSE /\ calls'[c].pc = "sent"
                      /\ calls'[c].nreq = 1
                      /\ calls'[c].req.cmd = SET_COMMAND
                      /\ UNCHANGED zones
        /\ Outcome(c, "turn_on_off") => calls'[c].nreq = 1 /\ UNCHANGED zones
        /\ Finished(c, "turn_on_off") =>
              /\ calls'[c].nreq = 1
              /\ ~failed(c) => (calls'[c].result = "ok" /\ zones'[z].drive = v)
      ]_vars

C3_Witness ==
    \E c \in Calls :
        /\ calls[c].op = "turn_on_off"
        /\ calls[c].pc = "done"
        /\ calls[c].result = "ok"
        /\ calls[c].nreq = 1
        /\ calls[c].arg = "OFF"
        /\ zones[calls[c].zone_id].drive = "OFF"

(***************************************************************************)
(* C4.  A command called with a zone id that is not a key of zones fails   *)
(* with a KeyError, the zone-not-found error.                              *)
(***************************************************************************)
C4_UnknownZoneFails ==
    \A c \in Calls :
        (calls[c].pc = "done" /\ calls[c].op \in Commands /\ ~calls[c].known)
        => calls[c].result = "KeyError"

(***************************************************************************)
(* C5.  set_swing_mode, set_fan_mode and set_temperature on a known zone   *)
(* send exactly one setRequest and no getRequest, and when send_request    *)
(* succeeds the zone's air_direction, fan_speed or set_temp is the mapped  *)
(* commanded value as soon as the call returns.                            *)
(***************************************************************************)
Commanded(call) ==
    CASE call.op = "set_swing_mode" ->
            [air_direction |->
                CASE call.arg = "off" -> "MID1"
                  [] call.arg = "on" -> "SWING"
                  [] call.arg = "both" -> "MID2"]
      [] call.op = "set_fan_mode" ->
            [fan_speed |->
                CASE call.arg = "auto" -> "AUTO"
                  [] call.arg = "low" -> "LOW"
                  [] call.arg = "medium" -> "MID1"
                  [] call.arg = "high" -> "HIGH"]
      [] call.op = "set_temperature" -> [set_temp |-> Some(call.temp)]

C5_OptimisticSetters ==
    [][\A c \in Calls :
        \A op \in {"set_swing_mode", "set_fan_mode", "set_temperature"} :
            /\ (Made(c, op) /\ calls'[c].known) =>
                  /\ calls'[c].pc = "sent"
                  /\ calls'[c].nreq = 1
                  /\ calls'[c].req.cmd = SET_COMMAND
                  /\ UNCHANGED zones
            /\ (Outcome(c, op) /\ calls[c].known) =>
                  calls'[c].nreq = 1 /\ UNCHANGED zones
            /\ (Finished(c, op) /\ calls[c].known /\ ~failed(c)) =>
                  LET want == Commanded(calls[c])
                      z == calls[c].zone_id
                  IN /\ calls'[c].result = "ok"
                     /\ calls'[c].nreq = 1
                     /\ \A f \in DOMAIN want : zones'[z][f] = want[f]
      ]_vars

C5_Witness ==
    \E c \in Calls :
        /\ calls[c].op = "set_fan_mode"
        /\ calls[c].arg = "medium"
        /\ calls[c].pc = "done"
        /\ calls[c].result = "ok"
        /\ calls[c].nreq = 1
        /\ zones[calls[c].zone_id].fan_speed = "MID1"

(***************************************************************************)
(* C6.  No step of set_system_mode changes a field of a zone or the        *)
(* gateway's last_updated; the commanded mode is with the device only.     *)
(***************************************************************************)
C6_SetSystemModeFrame ==
    [][\A c \in Calls :
        StepOf(c, "set_system_mode") => UNCHANGED <<zones, last_updated>>
      ]_vars

C6_Witness ==
    \E c \in Calls :
        /\ calls[c].op = "set_system_mode"
        /\ calls[c].arg = "fan_only"
        /\ calls[c].pc = "done"
        /\ calls[c].result = "ok"
        /\ calls[c].known
        /\ dev[calls[c].zone_id].Mode = "FAN"
        /\ zones[calls[c].zone_id].mode = "COOL"

(***************************************************************************)
(* C7.  When a refresh parses an Mnet element of a zone it already holds,  *)
(* set_temp and inlet_temp keep their values where the element lacks       *)
(* SetTemp or InletTemp, and drive, mode, fan_speed, air_direction, name   *)
(* and last_updated are overwritten, with None (the text "None" for mode)  *)
(* where the attribute is absent.                                          *)
(***************************************************************************)
\* the Mnet elements a finishing refresh parses
Parsed(c) ==
    IF fromstring_ok(calls[c].resp)
    THEN {calls[c].resp.mnets[i] : i \in 1..Len(calls[c].resp.mnets)}
    ELSE {}

TempOf(text) ==
    CASE text = "21.5" -> 215
      [] text = "23" -> 230
      [] text = "24.0" -> 240
      [] text = "26" -> 260
      [] text = "19.0" -> 190

C7_PartialUpdate ==
    [][\A c \in Calls : \A op \in Refreshes :
        Finished(c, op) =>
            \A m \in Parsed(c) :
                m.Group \in DOMAIN zones =>
                    LET old == zones[m.Group]
                        new == zones'[m.Group]
                    IN
                    /\ new.set_temp = IF m.attrs.SetTemp = None
                                      THEN old.set_temp
                                      ELSE <<TempOf(m.attrs.SetTemp)>>
                    /\ new.inlet_temp = IF m.attrs.InletTemp = None
                                        THEN old.inlet_temp
                                        ELSE <<TempOf(m.attrs.InletTemp)>>
                    /\ new.drive = m.attrs.Drive
                    /\ new.mode = IF m.attrs.Mode = None THEN "None" ELSE m.attrs.Mode
                    /\ new.fan_speed = m.attrs.FanSpeed
                    /\ new.air_direction = m.attrs.AirDirection
                    /\ new.name = get_zone_name(m.Group)
                    /\ new.last_updated = last_updated
      ]_vars

\* zone "1" after a reply that held its Group alone: the temperatures of the
\* enumeration are kept, the other attributes are None
C7_Witness ==
    /\ "1" \in DOMAIN zones
    /\ zones["1"].set_temp = <<215>>
    /\ zones["1"].inlet_temp = <<230>>
    /\ zones["1"].drive = None
    /\ zones["1"].mode = "None"
    /\ zones["1"].fan_speed = None
    /\ zones["1"].air_direction = None

(***************************************************************************)
(* C8.  A zone's last_updated never decreases.                             *)
(***************************************************************************)
C8_LastUpdatedMonotonic ==
    [][\A z \in DOMAIN zones :
        z \in DOMAIN zones' /\ zones'[z].last_updated >= zones[z].last_updated
      ]_vars

(***************************************************************************)
(* C9.  A refresh whose response is well-formed does not fail, and every   *)
(* Mnet element of a group that is not a key of zones adds a zone under    *)
(* that group with the attributes of the element.                          *)
(***************************************************************************)
C9_UnknownZoneCreated ==
    [][\A c \in Calls : \A op \in Refreshes :
        (Finished(c, op) /\ fromstring_ok(calls[c].resp)) =>
            /\ calls'[c].result = "ok"
            /\ \A m \in Parsed(c) :
                m.Group \notin DOMAIN zones =>
                    /\ m.Group \in DOMAIN zones'
                    /\ LET new == zones'[m.Group] IN
                       /\ new.drive = m.attrs.Drive
                       /\ new.mode = IF m.attrs.Mode = None THEN "None" ELSE m.attrs.Mode
                       /\ new.fan_speed = m.attrs.FanSpeed
                       /\ new.air_direction = m.attrs.AirDirection
                       /\ new.set_temp = IF m.attrs.SetTemp = None
                                         THEN <<>>
                                         ELSE <<TempOf(m.attrs.SetTemp)>>
                       /\ new.inlet_temp = IF m.attrs.InletTemp = None
                                           THEN <<>>
                                           ELSE <<TempOf(m.attrs.InletTemp)>>
      ]_vars

\* the gateway was constructed with zone "1" alone
C9_Witness ==
    /\ \E c \in Calls :
        calls[c].op \in Refreshes /\ calls[c].pc = "done" /\ calls[c].result = "ok"
    /\ "3" \in DOMAIN zones
    /\ zones["3"].name = "Hallway"
    /\ zones["3"].drive = "ON"
    /\ zones["3"].set_temp = <<>>

(***************************************************************************)
(* C10.  When send_request fails, the command or refresh raises after its  *)
(* one request, and no step of the call has changed a field of a zone.     *)
(***************************************************************************)
C10_TransportFailure ==
    [][\A c \in Calls : \A op \in Commands \cup Refreshes :
        /\ Made(c, op) => UNCHANGED zones
        /\ Outcome(c, op) => UNCHANGED zones
        /\ (Finished(c, op) /\ failed(c)) =>
              /\ calls'[c].result = "ConnectionError"
              /\ calls'[c].nreq = 1
              /\ UNCHANGED zones
      ]_vars

C10_Witness ==
    \E c \in Calls :
        /\ calls[c].op = "turn_on_off"
        /\ calls[c].pc = "done"
        /\ calls[c].result = "ConnectionError"
        /\ calls[c].nreq = 1
        /\ zones[calls[c].zone_id].drive # calls[c].arg

(***************************************************************************)
(* Enumeration and the gateway's calls in one specification: a behaviour   *)
(* is either an enumeration from its first probe or the calls on a gateway *)
(* that has been constructed.                                              *)
(***************************************************************************)
InitAny == Init \/ InitEnum

NextAny == Next \/ NextEnum

SpecAny == InitAny /\ [][NextAny]_vars

(***************************************************************************)
(* C11.  When the response to update_zone, update_zones or an enumeration  *)
(* probe is malformed XML, the operation raises the parser's error instead *)
(* of completing, and that response creates or modifies no zone.           *)
(***************************************************************************)
C11_MalformedFails ==
    [][/\ \A c \in Calls, op \in Refreshes :
            (Finished(c, op) /\ calls[c].resp.kind = "malformed")
            => /\ calls'[c].result = "ParseError"
               /\ zones' = zones
       /\ (enum.pc = "await" /\ enum'.pc # "await" /\ enum'.resp.kind = "malformed")
            => /\ enum'.pc = "done"
               /\ enum'.result = "ParseError"
               /\ enum'.enumerated_zones = enum.enumerated_zones
               /\ zones' = zones
      ]_vars

\* the third probe was answered with a malformed text
C11_Witness ==
    /\ enum.pc = "done"
    /\ enum.resp.kind = "malformed"
    /\ enum.nreq = 3
    /\ DOMAIN enum.enumerated_zones = {"1", "2"}

(***************************************************************************)
(* C12.  The keys of zones only grow: in every step of a command or a      *)
(* refresh, failed or not, every key of zones is still a key and is mapped *)
(* to the same G50Zone object, also when the device no longer reports it.  *)
(***************************************************************************)
C12_ZonesOnlyGrow ==
    [][\A z \in DOMAIN zones :
            /\ z \in DOMAIN zones'
            /\ zones'[z].oid = zones[z].oid
      ]_vars

\* update_zone("1") was answered without zone "1": the zone is kept as
\* enumerate_zones stored it, next to the zone the answer created
C12_Witness ==
    \E c \in Calls :
        /\ calls[c].op = "update_zone"
        /\ calls[c].zone_id = "1"
        /\ calls[c].pc = "done"
        /\ calls[c].result = "ok"
        /\ zones["1"].last_updated = StartTime
        /\ zones["1"].oid = 0
        /\ DOMAIN zones # {"1"}

(***************************************************************************)
(* set_fan_mode and update_zone on one zone with no serialization: every   *)
(* call has its own coroutine, and a call may be made while others are in  *)
(* flight.                                                                 *)
(***************************************************************************)
RaceZone == "1"

\* the coroutines are told apart by the order in which they were made
NextInOrder(c) == \A b \in 1..(c - 1) : calls[b].pc # "idle"

NextRace ==
    \E c \in Calls :
        \/ NextInOrder(c) /\ \E f \in FanModes : set_fan_mode_call(c, RaceZone, f)
        \/ NextInOrder(c) /\ update_zone_call(c, RaceZone)
        \/ send_request(c)
        \/ set_fan_mode_resume(c)
        \/ update_zone_resume(c)

SpecRace == Init /\ [][NextRace]_vars

\* no call is in flight, every call made has succeeded, and a set_fan_mode
\* and an update_zone are among them
BothSucceeded ==
    /\ \A c \in Calls : calls[c].pc \in {"idle", "done"}
    /\ \A c \in Calls : calls[c].pc = "done" => calls[c].result = "ok"
    /\ \E c \in Calls : calls[c].pc = "done" /\ calls[c].op = "set_fan_mode"
    /\ \E c \in Calls : calls[c].pc = "done" /\ calls[c].op = "update_zone"

\* no call was made while another was in flight
NoOverlap == \A c \in Calls : calls[c].during = {}

(***************************************************************************)
(* C13, as claimed.  When a set_fan_mode and an update_zone of one zone    *)
(* that do not overlap have both succeeded, the zone's fan_speed is the    *)
(* fan speed the device holds.                                             *)
(***************************************************************************)
C13_NoOverlapSameSpeed ==
    (BothSucceeded /\ NoOverlap)
    => zones[RaceZone].fan_speed = dev[RaceZone].FanSpeed

(***************************************************************************)
(* C13, amended.  When a set_fan_mode and an update_zone of one zone that  *)
(* do not overlap have both succeeded and the zone holds a fan speed, the  *)
(* zone's fan mode is the fan mode of the speed the device reports.        *)
(***************************************************************************)
C13_NoOverlapSameFanMode ==
    (BothSucceeded /\ NoOverlap /\ zones[RaceZone].fan_speed # None)
    => G50Zone_fan_mode(zones[RaceZone])
            = map_fan_speed_to_fan_mode(dev[RaceZone].FanSpeed)

\* the lost update: the calls overlapped, both succeeded, and the zone reads
\* a fan mode that is not the one the device reports
C13_LostUpdate ==
    /\ BothSucceeded
    /\ ~NoOverlap
    /\ zones[RaceZone].fan_speed # None
    /\ G50Zone_fan_mode(zones[RaceZone])
            # map_fan_speed_to_fan_mode(dev[RaceZone].FanSpeed)

(***************************************************************************)
(* Enumeration with its scheduling: the event loop runs a coroutine that   *)
(* can run, and send_request returns or raises within its timeout.         *)
(***************************************************************************)
SpecEnumFair ==
    /\ SpecEnum
    /\ WF_vars(enumerate_zones_probe)
    /\ WF_vars(enumerate_zones_resume)

\* the n-th request is the probe of zone id n alone, it is sent when the
\* probe before it has been answered, there are at most MAX_ZONES of them,
\* none follows an ERROR, and past the last probe enumerate_zones returns
ProbesInOrder ==
    /\ enum.nreq <= MAX_ZONES
    /\ enum.pc = "await"
        => /\ enum.nreq = enum.zone_id
           /\ enum.req.cmd = GET_COMMAND
           /\ Len(enum.req.mnets) = 1
           /\ enum.req.mnets[1].Group = ToString(enum.nreq)
    /\ enum.pc = "loop" => enum.nreq = enum.zone_id - 1
    /\ (enum.pc = "done" /\ enum.errAt # 0)
        => enum.nreq = enum.errAt /\ enum.result = "ok"
    /\ (enum.pc = "done" /\ enum.zone_id > MAX_ZONES)
        => /\ enum.nreq = MAX_ZONES
           /\ enum.errAt = 0
           /\ enum.result = "ok"

(***************************************************************************)
(* C14.  enumerate_zones terminates: it probes the zone ids 1, 2, 3, ...   *)
(* one request at a time, sends at most 10 requests, stops at the first    *)
(* response with an ERROR, and returns without an error when all 10 probes *)
(* were answered.                                                          *)
(***************************************************************************)
C14_EnumerationTerminates == []ProbesInOrder /\ <>(enum.pc = "done")

\* all ten probes were answered and enumerate_zones has returned ten zones
C14_Witness ==
    /\ enum.pc = "done"
    /\ enum.nreq = MAX_ZONES
    /\ enum.result = "ok"
    /\ enum.errAt = 0
    /\ DOMAIN enum.enumerated_zones = AllGroups

(***************************************************************************)
(* C15.  During enumeration a response with an ERROR element ends the      *)
(* enumeration also when it holds Mnet elements, and no zone is created    *)
(* from the Mnet elements of that response.                                *)
(***************************************************************************)
C15_ErrorEndsEnumeration ==
    [][(enum.pc = "await" /\ enum'.pc # "await"
            /\ enum'.resp.kind = "xml" /\ has_error(enum'.resp))
        => /\ enum'.pc = "done"
           /\ enum'.result = "ok"
           /\ enum'.nreq = enum.nreq
           /\ enum'.enumerated_zones = enum.enumerated_zones
      ]_vars

\* the second probe was answered with an ERROR and an Mnet of group 2
C15_Witness ==
    /\ enum.pc = "done"
    /\ enum.errAt = 2
    /\ has_error(enum.resp)
    /\ \E i \in 1..Len(enum.resp.mnets) : enum.resp.mnets[i].Group = "2"
    /\ DOMAIN enum.enumerated_zones = {"1"}

\* w is the one set_fan_mode made, it has succeeded, and it was over when
\* call c was made
WrittenBefore(w, c) ==
    /\ calls[w].op = "set_fan_mode"
    /\ calls[w].pc = "done"
    /\ calls[w].result = "ok"
    /\ w \notin calls[c].during
    /\ c \notin calls[w].during
    /\ \A o \in Calls \ {w} : calls[o].op # "set_fan_mode"

\* the response call c has got reports a fan speed of zone z
ReportsFanSpeed(c, z) ==
    \E mnet \in Parsed(c) : mnet.Group = z /\ mnet.attrs.FanSpeed # None

(***************************************************************************)
(* C16.  For every fan mode m of auto, low, medium, high: when             *)
(* set_fan_mode(z, m) has succeeded the zone's fan_mode reads m, and it    *)
(* reads m again after a later refresh whose response reports the speed    *)
(* the device then holds, a written LOW being reported as MID2.            *)
(***************************************************************************)
C16_FanModeRoundTrip ==
    [][\A c \in Calls :
        LET z == calls[c].zone_id IN
        /\ (Finished(c, "set_fan_mode") /\ calls'[c].result = "ok")
            => G50Zone_fan_mode(zones'[z]) = calls[c].arg
        /\ \A w \in Calls :
            (/\ Finished(c, "update_zone")
             /\ calls'[c].result = "ok"
             /\ WrittenBefore(w, c)
             /\ ReportsFanSpeed(c, z))
            => G50Zone_fan_mode(zones'[z]) = calls[w].arg
      ]_vars

\* set_fan_mode(z, "low") and then update_zone(z), which stored the MID2
\* the device reported
C16_Witness ==
    \E w, c \in Calls :
        /\ WrittenBefore(w, c)
        /\ calls[w].arg = "low"
        /\ calls[c].op = "update_zone"
        /\ calls[c].pc = "done"
        /\ calls[c].result = "ok"
        /\ zones[calls[w].zone_id].fan_speed = "MID2"
        /\ zones[calls[w].zone_id].last_updated = 0
        /\ dev[calls[w].zone_id].FanSpeed = "MID2"

(***************************************************************************)
(* One G50Zone on its own: it is constructed from keyword arguments at     *)
(* StartTime as enumerate_zones does, and update_zone (with the stamp 0 of  *)
(* a gateway that has not polled) and its three setters are called on it   *)
(* with any arguments.                                                     *)
(* The texts are those of the protocol and one the mappers do not know.    *)
(***************************************************************************)
Drives == {"ON", "OFF", None}
Modes == {"COOL", "HEAT", "FAN", "DRY", "AUTO", None}
FanSpeeds == {"LOW", "MID1", "MID2", "HIGH", "AUTO", None}
AirDirections == {"MID1", "MID2", "SWING", "VERTICAL", None}

ZoneKwargs(stamp) ==
    [set_temp : {"21.5"}, inlet_temp : {None}, drive : Drives, mode : Modes,
     fan_speed : FanSpeeds, air_direction : AirDirections,
     last_updated : {stamp}]

TheZone == "1"

G50Zone_set_mode(self, mode) == [self EXCEPT !.mode = mode]
G50Zone_set_air_direction(self, air_direction) ==
    [self EXCEPT !.air_direction = air_direction]
G50Zone_set_fan_speed(self, fan_speed) == [self EXCEPT !.fan_speed = fan_speed]

InitZone ==
    /\ \E kw \in ZoneKwargs(StartTime) :
        zones = dict_set(EmptyDict, TheZone,
                    G50Zone_new(EmptyDict, get_zone_name(TheZone), kw))
    /\ last_updated = 0
    /\ now = StartTime
    /\ dev = DevInit
    /\ calls = [c \in Calls |-> IdleCall]
    /\ made = 0
    /\ enum = EnumIdle
    /\ hass = HassLoaded

zone_update_zone(kw) ==
    /\ zones' = [zones EXCEPT ![TheZone] = G50Zone_update_zone(@, @.name, kw)]
    /\ UNCHANGED <<last_updated, now, dev, calls, made, enum, hass>>

zone_set_mode(mode) ==
    /\ zones' = [zones EXCEPT ![TheZone] = G50Zone_set_mode(@, mode)]
    /\ UNCHANGED <<last_updated, now, dev, calls, made, enum, hass>>

zone_set_air_direction(air_direction) ==
    /\ zones' = [zones EXCEPT ![TheZone] = G50Zone_set_air_direction(@, air_direction)]
    /\ UNCHANGED <<last_updated, now, dev, calls, made, enum, hass>>

zone_set_fan_speed(fan_speed) ==
    /\ zones' = [zones EXCEPT ![TheZone] = G50Zone_set_fan_speed(@, fan_speed)]
    /\ UNCHANGED <<last_updated, now, dev, calls, made, enum, hass>>

NextZone ==
    \/ \E kw \in ZoneKwargs(0) : zone_update_zone(kw)
    \/ \E m \in Modes \ {None} : zone_set_mode(m)
    \/ \E a \in AirDirections \ {None} : zone_set_air_direction(a)
    \/ \E f \in FanSpeeds \ {None} : zone_set_fan_speed(f)

SpecZone == InitZone /\ [][NextZone]_vars

(***************************************************************************)
(* C17.  hvac_mode of a zone is OFF whenever its drive is OFF, whatever    *)
(* its mode; with any other drive it is COOL, HEAT, FAN_ONLY, DRY for the  *)
(* modes COOL, HEAT, FAN, DRY and OFF for every other mode.                *)
(***************************************************************************)
C17_HvacMode ==
    \A z \in DOMAIN zones :
        LET zone == zones[z] IN
        /\ zone.drive = "OFF" => G50Zone_hvac_mode(zone) = "off"
        /\ zone.drive # "OFF" =>
            /\ zone.mode = "COOL" => G50Zone_hvac_mode(zone) = "cool"
            /\ zone.mode = "HEAT" => G50Zone_hvac_mode(zone) = "heat"
            /\ zone.mode = "FAN" => G50Zone_hvac_mode(zone) = "fan_only"
            /\ zone.mode = "DRY" => G50Zone_hvac_mode(zone) = "dry"
            /\ zone.mode \notin {"COOL", "HEAT", "FAN", "DRY"}
                => G50Zone_hvac_mode(zone) = "off"

\* a zone that update_zone has left driven OFF in mode COOL reads off
C17_Witness ==
    /\ zones[TheZone].last_updated = 0
    /\ zones[TheZone].drive = "OFF"
    /\ zones[TheZone].mode = "COOL"
    /\ G50Zone_hvac_mode(zones[TheZone]) = "off"

\* the pairs of a swing mode and its air direction
SwingPairs == {<<"off", "MID1">>, <<"on", "SWING">>, <<"both", "MID2">>}

(***************************************************************************)
(* C18.  For every swing mode s of off, on, both, the air direction of s   *)
(* maps back to s, with the pairs off-MID1, on-SWING, both-MID2; and when  *)
(* set_swing_mode(z, s) has succeeded the zone's swing_mode reads s.       *)
(***************************************************************************)
C18_SwingRoundTrip ==
    [][\A c \in Calls :
        LET z == calls[c].zone_id
            s == calls[c].arg
        IN
        (Finished(c, "set_swing_mode") /\ calls'[c].result = "ok")
        => /\ s \in SwingModes
           /\ <<s, zones'[z].air_direction>> \in SwingPairs
           /\ G50Zone_swing_mode(zones'[z]) = s
           /\ map_air_direction_to_swing(map_swing_to_air_direction(s)) = s
           /\ \A p \in SwingPairs :
                /\ map_swing_to_air_direction(p[1]) = p[2]
                /\ map_air_direction_to_swing(p[2]) = p[1]
      ]_vars

\* set_swing_mode(z, "both") has succeeded and the zone reads both
C18_Witness ==
    \E c \in Calls :
        /\ calls[c].op = "set_swing_mode"
        /\ calls[c].arg = "both"
        /\ calls[c].pc = "done"
        /\ calls[c].result = "ok"
        /\ zones[calls[c].zone_id].air_direction = "MID2"
        /\ G50Zone_swing_mode(zones[calls[c].zone_id]) = "both"

\* the attributes a command changes, None for the others
Changed(call) ==
    CASE call.op = "turn_on_off" -> [NoAttrs EXCEPT !.Drive = call.arg]
      [] call.op = "set_system_mode" ->
            IF call.arg = "off"
            THEN [NoAttrs EXCEPT !.Drive = "OFF"]
            ELSE [NoAttrs EXCEPT
                    !.Drive = "ON",
                    !.Mode = IF call.arg = "fan_only" THEN "FAN" ELSE upper(call.arg)]
      [] call.op = "set_swing_mode" ->
            [NoAttrs EXCEPT !.AirDirection = Commanded(call).air_direction]
      [] call.op = "set_fan_mode" ->
            [NoAttrs EXCEPT !.FanSpeed = Commanded(call).fan_speed]
      [] call.op = "set_temperature" ->
            [NoAttrs EXCEPT !.SetTemp = format_float(call.temp)]

(***************************************************************************)
(* C19.  Every command sends one setRequest whose single, well-formed Mnet *)
(* element carries the Group of the zone and exactly the attributes being  *)
(* changed: Drive for turn_on_off, Drive="OFF" for set_system_mode(OFF),   *)
(* Drive="ON" and the mapped Mode for the other modes, AirDirection for    *)
(* set_swing_mode, FanSpeed for set_fan_mode, SetTemp for set_temperature. *)
(***************************************************************************)
C19_CommandRequest ==
    \A c \in Calls :
        (calls[c].pc = "sent" /\ calls[c].op \in Commands)
        => /\ calls[c].nreq = 1
           /\ calls[c].req.cmd = SET_COMMAND
           /\ Len(calls[c].req.mnets) = 1
           /\ calls[c].req.mnets[1].wf
           /\ calls[c].req.mnets[1].Group = calls[c].zone_id
           /\ calls[c].req.mnets[1].attrs = Changed(calls[c])

(***************************************************************************)
(* update_zones on gateways of different sizes: one that was constructed   *)
(* with fewer zones than a bulk refresh asks for, and one with more.       *)
(***************************************************************************)
InitBulk ==
    /\ \E n \in {1, BULK_ZONES + 1} : zones = InitZones(n)
    /\ last_updated = 0
    /\ now = StartTime
    /\ dev = DevInit
    /\ calls = [c \in Calls |-> IdleCall]
    /\ made = 0
    /\ enum = EnumIdle
    /\ hass = HassLoaded

NextBulk ==
    \/ Tick
    \/ \E c \in Caller :
        \/ Return(c)
        \/ update_zones_call(c)
        \/ send_request(c)
        \/ update_zones_resume(c)

SpecBulk == InitBulk /\ [][NextBulk]_vars

dict_pop(d, k) == [x \in (DOMAIN d) \ {k} |-> d[x]]

\* async_setup_entry that keeps what the probes had found when one fails
async_setup_entry_resume_partial ==
    /\ hass.entry = "setup"
    /\ enum.pc = "done"
    /\ zones' = enum.enumerated_zones
    /\ last_updated' = 0
    /\ hass' = [hass EXCEPT
                    !.data = dict_set(@, CONF_HOST, Device),
                    !.entry = "loaded",
                    !.result = "True"]
    /\ UNCHANGED <<now, dev, calls, made, enum>>

\* enumerate_zones has returned or raised: the rest of async_setup_entry
async_setup_entry_resume ==
    /\ hass.entry = "setup"
    /\ enum.pc = "done"
    /\ IF enum.result # "ok"
       THEN /\ hass' = [hass EXCEPT !.entry = "failed", !.result = enum.result]
            /\ UNCHANGED <<zones, last_updated>>
       ELSE /\ zones' = enum.enumerated_zones
            /\ last_updated' = 0
            /\ hass' = [hass EXCEPT
                            !.data = dict_set(@, CONF_HOST, Device),
                            !.entry = "loaded",
                            !.result = "True"]
    /\ UNCHANGED <<now, dev, calls, made, enum>>

async_unload_entry ==
    /\ hass.entry = "loaded"
    /\ \E unload_ok \in BOOLEAN :
        hass' = IF ~unload_ok
                THEN [hass EXCEPT !.entry = "not_unloaded", !.result = "False"]
                ELSE IF entry_id \notin DOMAIN hass.data
                THEN [hass EXCEPT !.entry = "unload_failed", !.result = "KeyError"]
                ELSE [hass EXCEPT
                        !.data = dict_pop(@, entry_id),
                        !.entry = "unloaded",
                        !.result = "True"]
    /\ UNCHANGED <<zones, last_updated, now, dev, calls, made, enum>>

NextSetup ==
    \/ Tick
    \/ enumerate_zones_probe
    \/ enumerate_zones_resume
    \/ async_setup_entry_resume
    \/ async_unload_entry

SpecSetup == InitEnum /\ [][NextSetup]_vars

(***************************************************************************)
(* C21.  When a probe of the enumeration fails, by a transport failure or  *)
(* an unparsable response, enumerate_zones raises and returns none of the  *)
(* zones of the earlier probes, and setup stores no gateway for the        *)
(* hostname; a gateway is stored only when enumerate_zones has returned.   *)
(***************************************************************************)
C21_NoGatewayOnFailure ==
    /\ enum.result \in {"ConnectionError", "ParseError"}
        => /\ hass.entry \in {"setup", "failed"}
           /\ hass.entry = "failed" => hass.result = enum.result
           /\ DOMAIN hass.data = {}
           /\ zones = EmptyDict
    /\ CONF_HOST \in DOMAIN hass.data
        => /\ enum.pc = "done"
           /\ enum.result = "ok"
           /\ zones = enum.enumerated_zones

\* the third probe failed after two zones had been found, and setup raised
C21_Witness ==
    /\ hass.entry = "failed"
    /\ enum.nreq = 3
    /\ DOMAIN enum.enumerated_zones = {"1", "2"}
    /\ DOMAIN hass.data = {}

(***************************************************************************)
(* C22.  In every zone state reached through enumeration, refreshes and    *)
(* commands, also for a zone built from an Mnet element that lacks         *)
(* FanSpeed, AirDirection, Mode or Drive, reading hvac_mode, hvac_action,  *)
(* fan_mode and swing_mode returns a value and does not raise.             *)
(***************************************************************************)
C22_AccessorsReturn ==
    \A z \in DOMAIN zones :
        /\ G50Zone_hvac_mode(zones[z]) # AttributeError
        /\ G50Zone_hvac_action(zones[z]) # AttributeError
        /\ G50Zone_fan_mode(zones[z]) # AttributeError
        /\ G50Zone_swing_mode(zones[z]) # AttributeError

(***************************************************************************)
(* C23.  A command called with a zone id that is not a key of zones sends  *)
(* no request to the device.                                               *)
(***************************************************************************)
C23_UnknownZoneSendsNothing ==
    \A c \in Calls :
        (calls[c].op \in Commands /\ ~calls[c].known) => calls[c].nreq = 0

(***************************************************************************)
(* The climate entity of one zone.  Its methods await the gateway's        *)
(* coroutines with the entity's own zone id.  async_set_temperature first  *)
(* evaluates self.log_temperature, a name the class does not define.       *)
(***************************************************************************)
\* self._zone_id of the entity: a key of device.zones at setup
EntityZone == "1"

\* the attributes MitsubishiG50aClimate defines
MitsubishiG50aClimate ==
    {"__init__", "unique_id", "should_poll", "async_update",
     "async_set_hvac_mode", "async_set_temperature", "async_turn_on",
     "async_turn_off", "async_set_fan_mode", "async_set_swing_mode",
     "async_added_to_hass"}

\* kwargs.get(ATTR_TEMPERATURE) when the caller gave no temperature
NoTarget == -1

Targets == Temps \cup {NoTarget}

\* set_temperature is awaited only past the lookup of log_temperature
async_set_temperature(c, target) ==
    /\ CanStart(c)
    /\ calls' = [calls EXCEPT ![c] =
            IF "log_temperature" \notin MitsubishiG50aClimate
            THEN Done(Begin("async_set_temperature", EntityZone, "", target),
                      AttributeError)
            ELSE IF target = NoTarget
            THEN Done(Begin("async_set_temperature", EntityZone, "", target), "ok")
            ELSE Sent(Begin("set_temperature", EntityZone, "", target),
                      construct_request_xml(SET_COMMAND,
                        <<SetMnet(EntityZone,
                            [NoAttrs EXCEPT !.SetTemp = format_float(target)],
                            TRUE)>>))]
    /\ UNCHANGED <<zones, last_updated, now, dev, enum, hass>>

NextEntity ==
    \/ Tick
    \/ \E c \in Caller :
        \/ Return(c)
        \/ \E t \in Targets : async_set_temperature(c, t)
        \/ \E v \in OnOffArgs : turn_on_off_call(c, EntityZone, v)
        \/ \E m \in HvacModes : set_system_mode_call(c, EntityZone, m)
        \/ \E s \in SwingModes : set_swing_mode_call(c, EntityZone, s)
        \/ \E f \in FanModes : set_fan_mode_call(c, EntityZone, f)
        \/ update_zone_call(c, EntityZone)
        \/ send_request(c)
        \/ turn_on_off_resume(c)
        \/ set_system_mode_resume(c)
        \/ set_swing_mode_resume(c)
        \/ set_fan_mode_resume(c)
        \/ update_zone_resume(c)

SpecEntity == Init /\ [][NextEntity]_vars

(***************************************************************************)
(* C24.  async_set_temperature of the climate entity, given a target       *)
(* temperature, calls set_temperature of the gateway exactly once, for the *)
(* entity's own zone and with the temperature as a float; given no         *)
(* temperature it sends no command.                                        *)
(***************************************************************************)
C24_SetTemperatureOnce ==
    \A c \in Calls :
        (calls[c].op = "async_set_temperature" /\ calls[c].pc = "done")
        => /\ calls[c].zone_id = EntityZone
           /\ calls[c].nreq = (IF calls[c].temp = NoTarget THEN 0 ELSE 1)
           /\ calls[c].result \in {"ok", "ConnectionError"}

(***************************************************************************)
(* C25.  After async_setup_entry has stored the gateway of a config entry  *)
(* under its hostname, async_unload_entry for that entry, when the         *)
(* platforms unload, completes without an error and leaves no gateway for  *)
(* the entry in the store.                                                 *)
(***************************************************************************)
C25_UnloadRemovesGateway ==
    hass.entry \in {"unloaded", "unload_failed"}
    => /\ hass.result = "True"
       /\ CONF_HOST \notin DOMAIN hass.data

=============================================================================
